---- MODULE Spec2Model ----
(***************************************************************************)
(* A model of WikiTable (src/wikitable.py): the option dictionary with its *)
(* scoped override, the span tracker, the header resolver, the body        *)
(* generator, the row/column filter, the assembly of the DataFrame and the *)
(* regex extractor.                                                        *)
(*                                                                         *)
(* Texts are sequences of tokens (one-character strings or cell names).    *)
(* Python's None is a tagged value: an optional list is [none, v].         *)
(***************************************************************************)
EXTENDS Integers, Sequences, FiniteSets, TLC

VARIABLES
    options,        \* self._options of the root engine (mutated in place by updated)
    saved_options,  \* saved_options of WikiTableOptions.updated (live during a call)
    pre_options,    \* history: options at the moment the current/last call began
    entry,          \* "url" (pandas_from_url) or "soup" (pandas_from_soup)
    env,            \* the world and the caller, fixed during a run:
                    \* [page, link, kwargs, entries, max_calls, constructed]
    soup,           \* the parsed table of the running call: rows of cell elements
    pc,             \* position of the running call
    calls,          \* number of calls made on the engine so far
    events,         \* history: fetches made, in order ("root" / "nested")
    err,            \* the exception the last call ended with ("" when none)
    col_idx,        \* column labels (_handle_col_th, then extended in _pandas_from_soup)
    row_idx,        \* row labels (_handle_row_th)
    g_row,          \* _generate_body: row_idx of the enumerate over rows
    g_col,          \* _generate_body: col_raw of the enumerate over cells
    col_off,        \* _generate_body: col_off
    to_yield,       \* _generate_body: to_yield of the current row
    linked_data,    \* _generate_body: linked_data of the current row
    row_col_spans,  \* _generate_body: the span map (row, col) -> text
    placed,         \* history: per cell of the current row, index in to_yield of its own text (0: none)
    raw,            \* history: rows yielded by _generate_body
    raw_placed,     \* history: placed of every yielded row
    data,           \* rows yielded by _generate_extracted_body
    grid,           \* data_df values: rows padded to equal width
    link_url,       \* options.url of the on_link engine
    followed,       \* history: cells handed to on_link.pandas_from_url: <<row, cell ordinal, col>>
    result          \* what the call returned

vars == << options, saved_options, pre_options, entry, env, soup, pc, calls,
           events, err, col_idx, row_idx, g_row, g_col, col_off,
           to_yield, linked_data, row_col_spans, placed, raw, raw_placed,
           data, grid, link_url, followed, result >>

(***************************************************************************)
(* Bounds of the model.                                                    *)
(***************************************************************************)
MaxRows == 3
MaxCols == 3
MaxSpan == 2
MaxIdx == 2
MaxCalls == 2
MaxMatches == 2
MaxNoise == 2

(***************************************************************************)
(* Python values.                                                          *)
(***************************************************************************)
NoneList == [none |-> TRUE, v |-> <<>>]
Some(l) == [none |-> FALSE, v |-> l]
NoneInt == [none |-> TRUE, v |-> 0]
IntLabel(n) == [int |-> TRUE, n |-> n, s |-> <<>>]
StrLabel(s) == [int |-> FALSE, n |-> 0, s |-> s]
Missing == <<"NaN">>

InSeq(x, s) == \E i \in 1..Len(s) : s[i] = x
Range(s) == {s[i] : i \in 1..Len(s)}
SetMin(S) == CHOOSE m \in S : \A k \in S : m <= k
SetMax(S) == CHOOSE m \in S : \A k \in S : m >= k

(***************************************************************************)
(* WikiTableOptions.                                                       *)
(***************************************************************************)
default_options ==
    [ url |-> "None", tab_num |-> 0, tab_fil |-> "None",
      col_th |-> FALSE, row_th |-> FALSE,
      col_ex |-> NoneList, row_ex |-> NoneList,
      col_ref |-> Some(<<>>), row_ref |-> Some(<<>>),
      regex_ex |-> NoneList, regex_pos |-> NoneList, regex_max |-> NoneInt,
      on_link |-> FALSE ]

\* dict.update / dict.__init__(self, mapping): keys of kw overwrite, others stay
update(d, kw) ==
    [k \in DOMAIN d \cup DOMAIN kw |-> IF k \in DOMAIN kw THEN kw[k] ELSE d[k]]

WikiTableOptions(kwargs) == update(default_options, kwargs)

(***************************************************************************)
(* Text Normalizer: get_clean_text_from_soup.  A cell element is           *)
(*   [name, rowspan, colspan, txt, noise, geo, a, href]                    *)
(* rowspan/colspan 0: the attribute is absent.  noise: the sup/small/br    *)
(* descendants in document order, after the cell's own text txt.  geo: the *)
(* text of a span.geo descendant (<<>>: there is none).  a: "none" (no     *)
(* anchor), "nohref" (an anchor without href), "rel" (href starts with /)  *)
(* or "abs"; href is the target.                                           *)
(***************************************************************************)
Whitespace == {" ", "\n"}
\* the character U+2013
EnDash == "u2013"

RECURSIVE lstrip(_)
lstrip(s) ==
    IF s = <<>> THEN s
    ELSE IF Head(s) \in Whitespace THEN lstrip(Tail(s)) ELSE s

RECURSIVE rstrip(_)
rstrip(s) ==
    IF s = <<>> THEN s
    ELSE IF s[Len(s)] \in Whitespace THEN rstrip(SubSeq(s, 1, Len(s) - 1)) ELSE s

strip(s) == rstrip(lstrip(s))

replace(s, old, new) == [i \in 1..Len(s) |-> IF s[i] = old THEN new ELSE s[i]]

\* the text a descendant element adds to get_text()
NoiseText(tag) ==
    CASE tag = "sup" -> <<"^">>
      [] tag = "small" -> <<"~">>
      [] OTHER -> <<>>

RECURSIVE NoiseTexts(_)
NoiseTexts(noise) ==
    IF noise = <<>> THEN <<>>
    ELSE NoiseText(Head(noise)) \o NoiseTexts(Tail(noise))

get_text(cell) == cell.txt \o NoiseTexts(cell.noise)

\* td_soup.<tag>.extract(): detaches the FIRST descendant of that kind
extract_first(noise, tag) ==
    IF InSeq(tag, noise)
    THEN LET i == SetMin({j \in 1..Len(noise) : noise[j] = tag})
         IN  SubSeq(noise, 1, i - 1) \o SubSeq(noise, i + 1, Len(noise))
    ELSE noise

tag_list == <<"sup", "small", "br">>

RECURSIVE remove_child_tags(_, _)
remove_child_tags(noise, tags) ==
    IF tags = <<>> THEN noise
    ELSE remove_child_tags(extract_first(noise, Head(tags)), Tail(tags))

\* returns the mutated element and the string
get_clean_text_from_soup(td_soup) ==
    LET cell == [td_soup EXCEPT !.noise = remove_child_tags(td_soup.noise, tag_list)]
        to_return == IF cell.geo = <<>> THEN get_text(cell) ELSE cell.geo
    IN  [ soup |-> cell,
          text |-> replace(replace(strip(to_return), "\n", " "), EnDash, "-") ]

(***************************************************************************)
(* Span Tracker: _save_row_col_span and _load_row_col_span.                *)
(***************************************************************************)
put(spans, key, val) == [k \in DOMAIN spans \cup {key} |-> IF k = key THEN val ELSE spans[k]]

\* writes one normalization result per coordinate, in order
RECURSIVE write_spans(_, _, _)
write_spans(coords, cell, spans) ==
    IF coords = <<>> THEN [soup |-> cell, spans |-> spans]
    ELSE LET c == get_clean_text_from_soup(cell)
         IN  write_spans(Tail(coords), c.soup, put(spans, Head(coords), c.text))

\* mutant: a cell with both attributes registered as if it had colspan alone
both_coords_colspan_only(row, col, rowspan, colspan) ==
    [i \in 1..colspan |-> << row, col + i - 1 >>]

\* itertools.product(colspan_list, rowspan_list): r_off ranges over the colspan
both_coords(row, col, rowspan, colspan) ==
    [i \in 1..(colspan * rowspan) |->
        << row + ((i - 1) \div rowspan), col + ((i - 1) % rowspan) >>]

\* mutant: a cell with rowspan alone registered along its row
save_row_col_span_along_row(row, col, cell_soup, spans) ==
    IF cell_soup.rowspan # 0 /\ cell_soup.colspan # 0
    THEN write_spans(both_coords(row, col, cell_soup.rowspan, cell_soup.colspan),
                     cell_soup, spans)
    ELSE IF cell_soup.rowspan # 0
    THEN write_spans([i \in 1..cell_soup.rowspan |-> <<row, col + i - 1>>], cell_soup, spans)
    ELSE IF cell_soup.colspan # 0
    THEN write_spans([i \in 1..cell_soup.colspan |-> <<row, col + i - 1>>], cell_soup, spans)
    ELSE [soup |-> cell_soup, spans |-> spans]

save_row_col_span(row, col, cell_soup, spans) ==
    LET has_rowspan == cell_soup.rowspan # 0
        has_colspan == cell_soup.colspan # 0
    IN  IF has_rowspan /\ has_colspan
        THEN write_spans(both_coords(row, col, cell_soup.rowspan, cell_soup.colspan),
                         cell_soup, spans)
        ELSE IF has_rowspan
        THEN write_spans([i \in 1..cell_soup.rowspan |-> <<row + i - 1, col>>],
                         cell_soup, spans)
        ELSE IF has_colspan
        THEN write_spans([i \in 1..cell_soup.colspan |-> <<row, col + i - 1>>],
                         cell_soup, spans)
        ELSE [soup |-> cell_soup, spans |-> spans]

\* mutant: every stored column of the row from the first one on, gaps ignored
load_row_col_span_past_gaps(row, col, spans) ==
    LET repeat_cols == {k[2] : k \in {k \in DOMAIN spans : k[1] = row /\ k[2] >= col}}
        nth(j) == CHOOSE c \in repeat_cols : Cardinality({d \in repeat_cols : d < c}) = j - 1
    IN  IF repeat_cols = {} THEN <<>>
        ELSE IF SetMin(repeat_cols) # col /\ SetMin(repeat_cols) # col + 1 THEN <<>>
        ELSE [j \in 1..Cardinality(repeat_cols) |-> spans[<<row, nth(j)>>]]

load_row_col_span(row, col, spans) ==
    LET repeat_cols == {k[2] : k \in {k \in DOMAIN spans : k[1] = row /\ k[2] >= col}}
    IN  IF repeat_cols = {} THEN <<>>
        ELSE LET first == SetMin(repeat_cols)
             IN  IF first # col /\ first # col + 1 THEN <<>>
                 ELSE LET n == SetMax({m \in 1..Cardinality(repeat_cols) :
                                        \A j \in 0..(m - 1) : (first + j) \in repeat_cols})
                      IN  [j \in 1..n |-> spans[<<row, first + j - 1>>]]

(***************************************************************************)
(* Header Resolver: _th_check, _handle_col_th, _handle_row_th.  Each       *)
(* returns [err, soup, idx]: the exception raised ("" when none), the      *)
(* table as the normalizer left it, and the labels.                        *)
(***************************************************************************)
th_check(elem_default, elem_soup) ==
    IF elem_soup.name = "th"
    THEN StrLabel(get_clean_text_from_soup(elem_soup).text)
    ELSE IntLabel(elem_default)

\* the element after _th_check looked at it
th_touch(elem_soup) ==
    IF elem_soup.name = "th" THEN get_clean_text_from_soup(elem_soup).soup ELSE elem_soup

RECURSIVE sum_widths(_)
sum_widths(cells) ==
    IF cells = <<>> THEN 0
    ELSE (IF Head(cells).colspan # 0 THEN Head(cells).colspan ELSE 1) + sum_widths(Tail(cells))

handle_col_th(tr_soup_list, opts) ==
    IF tr_soup_list = <<>>
    THEN [err |-> "IndexError", soup |-> tr_soup_list, idx |-> <<>>]
    ELSE
    LET th_td_soup_list == tr_soup_list[1]
        col_len == sum_widths(th_td_soup_list)
        names == [i \in 1..col_len |->
                    IF opts.col_th /\ i <= Len(th_td_soup_list)
                    THEN th_check(i - 1, th_td_soup_list[i])
                    ELSE IntLabel(i - 1)]
        touched == IF opts.col_th
                   THEN [tr_soup_list EXCEPT ![1] =
                            [i \in 1..Len(th_td_soup_list) |-> th_touch(th_td_soup_list[i])]]
                   ELSE tr_soup_list
    IN  IF opts.col_ex.none
        THEN [err |-> "", soup |-> touched, idx |-> names]
        ELSE IF \E j \in 1..Len(opts.col_ex.v) : opts.col_ex.v[j] >= col_len
        THEN [err |-> "IndexError", soup |-> touched, idx |-> <<>>]
        ELSE [err |-> "", soup |-> touched,
              idx |-> [j \in 1..Len(opts.col_ex.v) |-> names[opts.col_ex.v[j] + 1]]]

handle_row_th(tr_soup_list, opts) ==
    LET start_row == IF opts.col_th THEN 1 ELSE 0
        n == Len(tr_soup_list) - start_row
        no_cell == opts.row_th /\ \E i \in 1..n : tr_soup_list[start_row + i] = <<>>
        names == [i \in 1..n |->
                    IF opts.row_th
                    THEN th_check(i - 1, tr_soup_list[start_row + i][1])
                    ELSE IntLabel(i - 1)]
        touched == IF opts.row_th
                   THEN [r \in 1..Len(tr_soup_list) |->
                            IF r > start_row
                            THEN [tr_soup_list[r] EXCEPT ![1] = th_touch(tr_soup_list[r][1])]
                            ELSE tr_soup_list[r]]
                   ELSE tr_soup_list
    IN  IF no_cell
        THEN [err |-> "AttributeError", soup |-> tr_soup_list, idx |-> <<>>]
        ELSE IF opts.row_ex.none
        THEN [err |-> "", soup |-> touched, idx |-> names]
        ELSE IF \E j \in 1..Len(opts.row_ex.v) : opts.row_ex.v[j] >= n
        THEN [err |-> "IndexError", soup |-> touched, idx |-> <<>>]
        ELSE [err |-> "", soup |-> touched,
              idx |-> [j \in 1..Len(opts.row_ex.v) |-> names[opts.row_ex.v[j] + 1]]]

(***************************************************************************)
(* Link Follower: _want_links and _handle_links.                           *)
(***************************************************************************)
\* [err, want]
want_links(row, col, opts) ==
    LET row_care == (~opts.row_ref.none) /\ opts.row_ref.v # <<>>
        col_care == (~opts.col_ref.none) /\ opts.col_ref.v # <<>>
        both_care == col_care /\ row_care
        none_care == (~col_care) /\ (~row_care)
    IN  IF none_care THEN [err |-> "", want |-> FALSE]
        ELSE IF both_care THEN [err |-> "Exception", want |-> FALSE]
        ELSE IF row_care THEN [err |-> "", want |-> InSeq(row, opts.row_ref.v)]
        ELSE [err |-> "", want |-> InSeq(col, opts.col_ref.v)]

RootUrl == "https://h/p"
OtherUrl == "https://o/q"
\* group(0) of '^(?:https?://)?(.*?(?=/|$))' on the urls of the model
top_level_domain(url) ==
    CASE url = RootUrl -> "https://h"
      [] url = OtherUrl -> "https://o"
      [] OTHER -> url

\* on_link.pandas_from_url(url = next_url) on the nested engine, whose persistent
\* url is lurl: [err, vals, url] with url the nested engine's url after the call
nested_pandas_from_url(next_url, world, lurl) ==
    IF next_url \in DOMAIN world
    THEN [err |-> "", vals |-> world[next_url], url |-> lurl]
    ELSE [err |-> "NetworkError", vals |-> <<>>, url |-> next_url]

\* [err, vals, fetched, url]
handle_links(row, col, cell_soup, opts, world, lurl) ==
    LET w == want_links(row, col, opts)
        none == [err |-> "", vals |-> <<>>, fetched |-> FALSE, url |-> lurl]
    IN  IF w.err # "" THEN [none EXCEPT !.err = w.err]
        ELSE IF ~w.want \/ cell_soup.a = "none" THEN none
        ELSE IF cell_soup.a = "nohref" THEN [none EXCEPT !.err = "AttributeError"]
        ELSE IF cell_soup.a = "rel" /\ opts.url = "None"
        THEN [none EXCEPT !.err = "TypeError"]
        ELSE IF ~opts.on_link THEN [none EXCEPT !.err = "AttributeError"]
        ELSE LET next_url == IF cell_soup.a = "rel"
                             THEN top_level_domain(opts.url) \o cell_soup.href
                             ELSE cell_soup.href
                 n == nested_pandas_from_url(next_url, world, lurl)
             IN  [err |-> n.err, vals |-> n.vals, fetched |-> TRUE, url |-> n.url]

(***************************************************************************)
(* Row/Column Filter: handle_care of _generate_extracted_body, and the     *)
(* filtering of one row.                                                   *)
(***************************************************************************)
\* mutant: the list is consulted even when the option is None
handle_care_always(care, index, index_list) == InSeq(index, index_list)

handle_care(care, index, index_list) ==
    IF care THEN InSeq(index, index_list) ELSE TRUE

\* the columns of one row the generator keeps
extract_cols(row, opts) ==
    LET col_care == ~opts.col_ex.none
        keep == {i \in 1..Len(row) : handle_care(col_care, i - 1, opts.col_ex.v)}
        nth(j) == CHOOSE i \in keep : Cardinality({m \in keep : m < i}) = j - 1
    IN  [j \in 1..Cardinality(keep) |-> row[nth(j)]]

\* mutant: the loop after "yield from" sees the rows a second time
extracted_rows_twice(ordinal, row, opts) ==
    IF opts.col_ex.none /\ opts.row_ex.none THEN << row, row >>
    ELSE IF ~handle_care(~opts.row_ex.none, ordinal, opts.row_ex.v) THEN << >>
    ELSE << extract_cols(row, opts) >>

\* what _generate_extracted_body adds to its output for the row the body
\* generator yields as its ordinal-th (row_idx of the enumerate)
extracted_rows(ordinal, row, opts) ==
    LET row_care == ~opts.row_ex.none
        col_care == ~opts.col_ex.none
        none_care == (~col_care) /\ (~row_care)
    IN  IF none_care THEN << row >>
        ELSE IF ~handle_care(row_care, ordinal, opts.row_ex.v) THEN << >>
        ELSE << extract_cols(row, opts) >>

(***************************************************************************)
(* The calls.  fail(e): an exception leaves the with-block of the entry    *)
(* operation; the generator-based context manager has no try/finally, so   *)
(* the code after its yield does not run.                                  *)
(***************************************************************************)
empty_map == [k \in {} |-> <<>>]

fail(e) ==
    /\ err' = e
    /\ pc' = "idle"

\* mutant: the first row is skipped by the row-header flag
start_row_by_row_th == IF options.row_th THEN 1 ELSE 0

start_row == IF options.col_th THEN 1 ELSE 0
start_col == IF options.row_th THEN 1 ELSE 0
body_rows == Len(soup) - start_row
\* td_soup_list[start_col:] of the current row
body_cells == LET tds == soup[start_row + g_row + 1]
              IN  IF start_col >= Len(tds) THEN <<>> ELSE SubSeq(tds, start_col + 1, Len(tds))

\* pandas_from_url / pandas_from_soup up to the body of the with-block
Call ==
    /\ pc = "idle"
    /\ calls < env.max_calls
    /\ \E kwargs \in env.kwargs, e \in env.entries :
        /\ entry' = e
        /\ saved_options' = options
        /\ pre_options' = options
        /\ options' = update(options, kwargs)
        /\ pc' = IF e = "url" THEN "fetch" ELSE "col_th"
        /\ soup' = IF e = "url" \/ env.page = <<>> THEN <<>> ELSE env.page[1].rows
    /\ calls' = calls + 1
    /\ err' = ""
    /\ events' = <<>>
    /\ col_idx' = <<>> /\ row_idx' = <<>>
    /\ g_row' = 0 /\ g_col' = 0 /\ col_off' = 0
    /\ to_yield' = <<>> /\ linked_data' = <<>> /\ row_col_spans' = empty_map
    /\ placed' = <<>> /\ raw' = <<>> /\ raw_placed' = <<>>
    /\ data' = <<>> /\ grid' = <<>> /\ result' = <<>>
    /\ followed' = <<>>
    /\ UNCHANGED << env, link_url >>

\* requests.get(options.url) and the choice of the table
Fetch ==
    /\ pc = "fetch"
    /\ events' = Append(events, "root")
    /\ IF options.url # RootUrl
       THEN fail("NetworkError") /\ UNCHANGED soup
       ELSE LET tables == IF options.tab_fil = "None" THEN env.page
                          ELSE SelectSeq(env.page, LAMBDA t : t.cls = options.tab_fil)
            IN  IF options.tab_num >= Len(tables)
                THEN fail("IndexError") /\ UNCHANGED soup
                ELSE /\ soup' = tables[options.tab_num + 1].rows
                     /\ pc' = "col_th"
                     /\ UNCHANGED err
    /\ UNCHANGED << options, saved_options, pre_options, entry, env, calls, col_idx,
                    row_idx, g_row, g_col, col_off, to_yield, linked_data,
                    row_col_spans, placed, raw, raw_placed, data, grid, link_url, followed, result >>

HandleColTh ==
    /\ pc = "col_th"
    /\ LET h == handle_col_th(soup, options)
       IN  /\ soup' = h.soup
           /\ col_idx' = h.idx
           /\ IF h.err # "" THEN fail(h.err) ELSE pc' = "row_th" /\ UNCHANGED err
    /\ UNCHANGED << options, saved_options, pre_options, entry, env, calls, events,
                    row_idx, g_row, g_col, col_off, to_yield, linked_data,
                    row_col_spans, placed, raw, raw_placed, data, grid, link_url, followed, result >>

HandleRowTh ==
    /\ pc = "row_th"
    /\ LET h == handle_row_th(soup, options)
       IN  /\ soup' = h.soup
           /\ row_idx' = h.idx
           /\ IF h.err # "" THEN fail(h.err) ELSE pc' = "row" /\ UNCHANGED err
    /\ UNCHANGED << options, saved_options, pre_options, entry, env, calls, events,
                    col_idx, g_row, g_col, col_off, to_yield, linked_data,
                    row_col_spans, placed, raw, raw_placed, data, grid, link_url, followed, result >>

(***************************************************************************)
(* Row/Body Generator: _generate_body, one row at a time, one cell at a    *)
(* time, each yielded row handed to _generate_extracted_body at once (the  *)
(* generators are consumed lazily by the DataFrame constructor).           *)
(***************************************************************************)
StartRow ==
    /\ pc = "row"
    /\ g_row < body_rows
    /\ to_yield' = load_row_col_span(g_row, 0, row_col_spans)
    /\ col_off' = Len(to_yield')
    /\ linked_data' = <<>>
    /\ g_col' = 0
    /\ placed' = <<>>
    /\ pc' = "cell"
    /\ UNCHANGED << options, saved_options, pre_options, entry, env, soup, calls,
                    events, err, col_idx, row_idx, g_row, row_col_spans, raw,
                    raw_placed, data, grid, link_url, followed, result >>

\* one iteration of the loop over td_soup_list[start_col:]
Cell ==
    /\ pc = "cell"
    /\ g_col < Len(body_cells)
    /\ LET td_soup == body_cells[g_col + 1]
           c_idx == g_col + col_off
           saved == save_row_col_span(g_row, c_idx, td_soup, row_col_spans)
           covered == DOMAIN saved.spans
           own == get_clean_text_from_soup(saved.soup)
           is_own == << g_row, c_idx >> \notin covered
           after_soup == IF is_own THEN own.soup ELSE saved.soup
           with_own == IF is_own THEN Append(to_yield, own.text) ELSE to_yield
           repeat_cells == load_row_col_span(g_row, c_idx, saved.spans)
           links == handle_links(g_row, c_idx, after_soup, options, env.link, link_url)
       IN  /\ row_col_spans' = saved.spans
           /\ soup' = [soup EXCEPT ![start_row + g_row + 1][start_col + g_col + 1] = after_soup]
           /\ to_yield' = with_own \o repeat_cells
           /\ placed' = Append(placed, IF is_own THEN Len(with_own) ELSE 0)
           /\ col_off' = IF td_soup.colspan = 0 /\ td_soup.rowspan = 0
                         THEN col_off + Len(repeat_cells) ELSE col_off
           /\ events' = IF links.fetched THEN Append(events, "nested") ELSE events
           /\ link_url' = links.url
           /\ followed' = IF links.fetched THEN Append(followed, << g_row, g_col, c_idx >>)
                          ELSE followed
           /\ linked_data' = linked_data \o links.vals
           /\ IF links.err # "" THEN fail(links.err) ELSE pc' = "cell" /\ UNCHANGED err
    /\ g_col' = g_col + 1
    /\ UNCHANGED << options, saved_options, pre_options, entry, env, calls, col_idx,
                    row_idx, g_row, raw, raw_placed, data, grid, result >>

\* mutant: the linked values are put before the row's own values
YieldRow_links_first ==
    /\ pc = "cell"
    /\ g_col = Len(body_cells)
    /\ raw' = Append(raw, linked_data \o to_yield)
    /\ raw_placed' = Append(raw_placed, placed)
    /\ data' = data \o extracted_rows(g_row, linked_data \o to_yield, options)
    /\ g_row' = g_row + 1
    /\ pc' = "row"
    /\ UNCHANGED << options, saved_options, pre_options, entry, env, soup, calls,
                    events, err, col_idx, row_idx, g_col, col_off, to_yield,
                    linked_data, row_col_spans, placed, grid, link_url, followed, result >>

\* yield to_yield + linked_data, and the filter's handling of that row
YieldRow ==
    /\ pc = "cell"
    /\ g_col = Len(body_cells)
    /\ raw' = Append(raw, to_yield \o linked_data)
    /\ raw_placed' = Append(raw_placed, placed)
    /\ data' = data \o extracted_rows(g_row, to_yield \o linked_data, options)
    /\ g_row' = g_row + 1
    /\ pc' = "row"
    /\ UNCHANGED << options, saved_options, pre_options, entry, env, soup, calls,
                    events, err, col_idx, row_idx, g_col, col_off, to_yield,
                    linked_data, row_col_spans, placed, grid, link_url, followed, result >>

(***************************************************************************)
(* _pandas_from_soup, lines 170-175: the DataFrame of the filtered rows.   *)
(* pandas pads short rows with missing values, and raises ValueError when  *)
(* the labels handed to it do not fit the data.                            *)
(***************************************************************************)
RECURSIVE max_len(_)
max_len(rows) ==
    IF rows = <<>> THEN 0
    ELSE LET m == max_len(Tail(rows))
         IN  IF Len(Head(rows)) > m THEN Len(Head(rows)) ELSE m

pad(row, n) == [j \in 1..n |-> IF j <= Len(row) THEN row[j] ELSE Missing]

\* [err, grid, columns]
data_frame(rows, index, columns) ==
    LET col_num == max_len(rows)
        values == [i \in 1..Len(rows) |-> pad(rows[i], col_num)]
    IN  IF Len(index) # Len(rows) \/ Len(columns) > col_num
        THEN [err |-> "ValueError", grid |-> values, columns |-> columns]
        ELSE [err |-> "", grid |-> values,
              columns |-> columns \o [j \in 1..(col_num - Len(columns)) |->
                                          IntLabel(Len(columns) + j - 1)]]

Assemble ==
    /\ pc = "row"
    /\ g_row = body_rows
    /\ LET df == data_frame(data, row_idx, col_idx)
       IN  /\ grid' = df.grid
           /\ col_idx' = df.columns
           /\ IF df.err # "" THEN fail(df.err) ELSE pc' = "extract" /\ UNCHANGED err
    /\ UNCHANGED << options, saved_options, pre_options, entry, env, soup, calls,
                    events, row_idx, g_row, g_col, col_off, to_yield, linked_data,
                    row_col_spans, placed, raw, raw_placed, data, link_url, followed, result >>

(***************************************************************************)
(* Regex Extractor: _pandas_extract.  A pattern is a token; a text         *)
(* contains a match when the token occurs in it.                           *)
(***************************************************************************)
contains(text, rex) == text # Missing /\ InSeq(rex, text)

\* true_list as grid positions <<row, col>> (1-based), column by column
true_list(values, rex) ==
    LET n == Len(values)
        w == IF n = 0 THEN 0 ELSE Len(values[1])
        all == [p \in 1..(n * w) |-> << ((p - 1) % n) + 1, ((p - 1) \div n) + 1 >>]
    IN  SelectSeq(all, LAMBDA rc : contains(values[rc[1]][rc[2]], rex))

\* regex_pos padded with (0, 0) to the length of regex_ex
padded_pos(opts) ==
    LET given == IF opts.regex_pos.none THEN <<>> ELSE opts.regex_pos.v
        n == Len(opts.regex_ex.v)
    IN  given \o [i \in 1..(IF n > Len(given) THEN n - Len(given) ELSE 0) |-> <<0, 0>>]

\* extract_list[0:regex_max]
truncated(l, regex_max) ==
    IF regex_max.none \/ regex_max.v >= Len(l) THEN l ELSE SubSeq(l, 1, regex_max.v)

\* orig + pos on a label: a text label cannot be added to an integer
shifted(label, d) == IntLabel(label.n + d)

\* data_df.loc[row_ex, col_ex]: the positions carrying these labels
loc_rows(index, label) == {i \in 1..Len(index) : index[i] = label}

\* one (rex, pos) of the loop: [err, vals]
extract_one(values, index, columns, rex, pos, regex_max) ==
    LET tl == true_list(values, rex)
        type_error == \E k \in 1..Len(tl) :
                          (~index[tl[k][1]].int) \/ (~columns[tl[k][2]].int)
        extract_list == truncated(
            [k \in 1..Len(tl) |-> << shifted(index[tl[k][1]], pos[1]),
                                     shifted(columns[tl[k][2]], pos[2]) >>], regex_max)
        key_error == \E k \in 1..Len(extract_list) :
                          \/ loc_rows(index, extract_list[k][1]) = {}
                          \/ loc_rows(columns, extract_list[k][2]) = {}
    IN  IF type_error THEN [err |-> "TypeError", vals |-> <<>>]
        ELSE IF key_error THEN [err |-> "KeyError", vals |-> <<>>]
        ELSE [err |-> "",
              vals |-> [k \in 1..Len(extract_list) |->
                          values[SetMin(loc_rows(index, extract_list[k][1]))]
                                [SetMin(loc_rows(columns, extract_list[k][2]))]]]

RECURSIVE extract_all(_, _, _, _, _, _)
extract_all(values, index, columns, regexes, poss, regex_max) ==
    IF regexes = <<>> \/ poss = <<>> THEN [err |-> "", vals |-> <<>>]
    ELSE LET one == extract_one(values, index, columns, Head(regexes), Head(poss), regex_max)
             rest == extract_all(values, index, columns, Tail(regexes), Tail(poss), regex_max)
         IN  IF one.err # "" THEN one
             ELSE IF rest.err # "" THEN rest
             ELSE [err |-> "", vals |-> one.vals \o rest.vals]

\* [err, frame, vals]: the DataFrame itself when regex_ex is None
pandas_extract(values, index, columns, opts) ==
    IF opts.regex_ex.none THEN [err |-> "", frame |-> TRUE, vals |-> values]
    ELSE LET x == extract_all(values, index, columns, opts.regex_ex.v,
                              padded_pos(opts), opts.regex_max)
         IN  [err |-> x.err, frame |-> FALSE, vals |-> x.vals]

Extract ==
    /\ pc = "extract"
    /\ LET x == pandas_extract(grid, row_idx, col_idx, options)
       IN  IF x.err # ""
           THEN fail(x.err) /\ UNCHANGED result
           ELSE /\ result' = [frame |-> x.frame, vals |-> x.vals]
                /\ pc' = "exit"
                /\ UNCHANGED err
    /\ UNCHANGED << options, saved_options, pre_options, entry, env, soup, calls,
                    events, col_idx, row_idx, g_row, g_col, col_off, to_yield,
                    linked_data, row_col_spans, placed, raw, raw_placed, data, grid,
                    link_url, followed >>

\* the return leaves the with-block: the code after the yield of updated runs
Return ==
    /\ pc = "exit"
    /\ options' = update(options, saved_options)
    /\ pc' = "idle"
    /\ UNCHANGED << saved_options, pre_options, entry, env, soup, calls, events, err,
                    col_idx, row_idx, g_row, g_col, col_off, to_yield, linked_data,
                    row_col_spans, placed, raw, raw_placed, data, grid, link_url, followed,
                    result >>

Next ==
    \/ Call
    \/ Fetch
    \/ HandleColTh
    \/ HandleRowTh
    \/ StartRow
    \/ Cell
    \/ YieldRow
    \/ Assemble
    \/ Extract
    \/ Return

(***************************************************************************)
(* The tables and configurations the specifications start from.  The cell  *)
(* k of row r (both from 1) has a text that names it, with whitespace, a   *)
(* newline or U+2013 around it, and sup/small/br descendants (at most one  *)
(* of a kind), by position.                                                *)
(***************************************************************************)
CellNames == << <<"a1", "a2", "a3", "a4", "a5">>,
                <<"b1", "b2", "b3", "b4", "b5">>,
                <<"c1", "c2", "c3", "c4", "c5">>,
                <<"d1", "d2", "d3", "d4", "d5">>,
                <<"e1", "e2", "e3", "e4", "e5">> >>

raw_text(r, k) ==
    CASE (r + k) % 3 = 0 -> << " ", CellNames[r][k], "\n" >>
      [] (r + k) % 3 = 1 -> << CellNames[r][k], "\n", "x" >>
      [] OTHER -> << CellNames[r][k], EnDash, "y" >>

noise_of(r, k) ==
    CASE k = 2 -> << "sup" >>
      [] k = 3 -> << "small", "br", "sup" >>
      [] OTHER -> << >>

mk_cell(name, rowspan, colspan, r, k) ==
    [ name |-> name, rowspan |-> rowspan, colspan |-> colspan,
      txt |-> raw_text(r, k), noise |-> noise_of(r, k),
      geo |-> IF r = 2 /\ k = 1 THEN << "\n", CellNames[r][k], "g" >> ELSE << >>,
      a |-> "none", href |-> "" ]

\* row lengths of the tables
Shapes == UNION { [1..n -> 1..MaxCols] : n \in 1..MaxRows }

\* all td, the cell k of row r carrying the span attributes (0: absent); the
\* spanning cell is one of the first MaxSpan cells of the first MaxSpan rows
span_table(shape, r, k, rowspan, colspan) ==
    [i \in 1..Len(shape) |->
        [j \in 1..shape[i] |->
            IF i = r /\ j = k THEN mk_cell("td", rowspan, colspan, i, j)
            ELSE mk_cell("td", 0, 0, i, j)]]

SpanTables ==
    { span_table(shape, r, k, rs, cs) :
        shape \in Shapes, r \in 1..MaxSpan, k \in 1..MaxSpan,
        rs \in 0..MaxSpan, cs \in 0..MaxSpan }

no_kwargs == [k \in {} |-> 0]

\* env.constructed: the options the engine was constructed with
init_with(world, opts) ==
    /\ env = world @@ [constructed |-> opts]
    /\ options = opts
    /\ saved_options = opts
    /\ pre_options = opts
    /\ entry = "url"
    /\ soup = <<>>
    /\ pc = "idle"
    /\ calls = 0
    /\ events = <<>>
    /\ err = ""
    /\ col_idx = <<>> /\ row_idx = <<>>
    /\ g_row = 0 /\ g_col = 0 /\ col_off = 0
    /\ to_yield = <<>> /\ linked_data = <<>> /\ row_col_spans = empty_map
    /\ placed = <<>> /\ raw = <<>> /\ raw_placed = <<>>
    /\ data = <<>> /\ grid = <<>>
    /\ link_url = "None"
    /\ followed = <<>>
    /\ result = <<>>

no_links == [u \in {} |-> <<>>]

\* tables with spans, default options, one call of pandas_from_url
InitBody ==
    \E t \in SpanTables :
        init_with([ page |-> << [cls |-> "wikitable", rows |-> t] >>,
                    link |-> no_links, kwargs |-> {no_kwargs},
                    entries |-> {"url"}, max_calls |-> 1 ],
                  WikiTableOptions([url |-> RootUrl]))

SpecBody == InitBody /\ [][Next]_vars

(***************************************************************************)
(* Calls with overrides, on a page of one table of two rows whose second   *)
(* column holds hyperlinks; the linked pages are fetched by the on_link    *)
(* engine.  "/ok" exists, "/gone" does not; only RootUrl serves the page.  *)
(***************************************************************************)
link_cell(r, k, a, href) == [mk_cell("td", 0, 0, r, k) EXCEPT !.a = a, !.href = href]

link_table(a, href) ==
    << << mk_cell("td", 0, 0, 1, 1), link_cell(1, 2, "rel", "/ok") >>,
       << mk_cell("td", 0, 0, 2, 1), link_cell(2, 2, a, href) >> >>

LinkTables ==
    { link_table("rel", "/ok"), link_table("rel", "/gone"),
      link_table("abs", "https://o/q"), link_table("nohref", ""),
      link_table("none", "") }

linked_pages == [u \in {"https://h/ok", "https://o/q"} |-> << <<"v", u>> >>]

LinkScopes == { Some(<<>>), Some(<<1>>), NoneList }

Overrides ==
    { no_kwargs,
      [url |-> OtherUrl],
      [tab_num |-> 1],
      [col_ref |-> Some(<<1>>)],
      [row_ref |-> Some(<<0>>)],
      [col_th |-> TRUE, row_ex |-> Some(<<0>>)],
      [regex_ex |-> Some(<<"x">>), regex_pos |-> Some(<< <<1, 0>> >>)] }

Init ==
    \E t \in LinkTables, cr \in LinkScopes, rr \in LinkScopes :
        init_with([ page |-> << [cls |-> "wikitable", rows |-> t] >>,
                    link |-> linked_pages, kwargs |-> Overrides,
                    entries |-> {"url", "soup"}, max_calls |-> MaxCalls ],
                  WikiTableOptions([url |-> RootUrl, col_ref |-> cr, row_ref |-> rr,
                                    on_link |-> TRUE]))

Spec == Init /\ [][Next]_vars

(***************************************************************************)
(* Tables of n rows of w cells, the last row one cell shorter or not, for  *)
(* the filters and the headers.                                            *)
(***************************************************************************)
BlockShapes ==
    { [i \in 1..n |-> IF i = n /\ short /\ w > 1 THEN w - 1 ELSE w] :
        n \in 1..MaxRows, w \in 1..MaxCols, short \in BOOLEAN }

\* None, or a list of at most two indices, in any order, repeated or not
KeepLists ==
    { NoneList, Some(<<>>) } \cup { Some(<<i>>) : i \in 0..MaxIdx }
        \cup { Some(<<i, j>>) : i \in 0..MaxIdx, j \in 0..MaxIdx }

\* plain tables, every pair of keep filters, header modes off
InitFilter ==
    \E shape \in BlockShapes, ce \in KeepLists, re \in KeepLists :
        init_with([ page |-> << [cls |-> "wikitable", rows |-> span_table(shape, 0, 0, 0, 0)] >>,
                    link |-> no_links, kwargs |-> {no_kwargs},
                    entries |-> {"url"}, max_calls |-> 1 ],
                  WikiTableOptions([url |-> RootUrl, col_ex |-> ce, row_ex |-> re]))

SpecFilter == InitFilter /\ [][Next]_vars

\* the first row all th ("th"), all td ("td") or a th then tds ("mix"); the
\* first cell of the later rows th or td; the first cell with a colspan or not
header_table(shape, head, side, colspan) ==
    [i \in 1..Len(shape) |->
        [j \in 1..shape[i] |->
            mk_cell(IF i = 1 THEN (IF head = "th" \/ (head = "mix" /\ j = 1) THEN "th" ELSE "td")
                    ELSE (IF j = 1 THEN side ELSE "td"),
                    0, IF i = 1 /\ j = 1 THEN colspan ELSE 0, i, j)]]

HeaderTables ==
    { header_table(shape, head, side, cs) :
        shape \in BlockShapes, head \in {"th", "td", "mix"}, side \in {"th", "td"},
        cs \in {0, MaxSpan} }

HeaderKeepLists == { NoneList, Some(<<0>>), Some(<<1, 0>>) }

InitGrid ==
    \E t \in HeaderTables, cth \in BOOLEAN, rth \in BOOLEAN,
       ce \in HeaderKeepLists, re \in HeaderKeepLists :
        init_with([ page |-> << [cls |-> "wikitable", rows |-> t] >>,
                    link |-> no_links, kwargs |-> {no_kwargs},
                    entries |-> {"url"}, max_calls |-> 1 ],
                  WikiTableOptions([url |-> RootUrl, col_th |-> cth, row_th |-> rth,
                                    col_ex |-> ce, row_ex |-> re]))

SpecGrid == InitGrid /\ [][Next]_vars

(***************************************************************************)
(* Tables for the regex extractor: every text holds its cell's name, "m",  *)
(* a token of its row and a token of its column, so that a pattern matches *)
(* one cell, a row, a column or every cell.  The first row is all td, or a *)
(* td followed by th cells.                                                *)
(***************************************************************************)
RowTokens == << "r1", "r2", "r3", "r4", "r5" >>
ColTokens == << "k1", "k2", "k3", "k4", "k5" >>

regex_table(n, w, head) ==
    [i \in 1..n |->
        [j \in 1..w |->
            [ mk_cell(IF i = 1 /\ j > 1 THEN head ELSE "td", 0, 0, i, j)
              EXCEPT !.txt = << CellNames[i][j], " ", "m", RowTokens[i], ColTokens[j] >>,
                     !.geo = << >> ]]]

RegexTables ==
    { regex_table(n, w, head) : n \in 2..MaxRows, w \in 2..MaxCols, head \in {"th", "td"} }

RegexLists == { Some(<<"m">>), Some(<<"r1">>), Some(<<"r2", "k2">>), Some(<<"b2">>) }
RegexPositions ==
    { NoneList, Some(<< <<1, 0>> >>), Some(<< <<2, 0>> >>), Some(<< <<0, 1>>, <<-1, 0>> >>) }
RegexMaxes == { NoneInt } \cup { [none |-> FALSE, v |-> n] : n \in 0..MaxMatches }

InitRegex ==
    \E t \in RegexTables, cth \in BOOLEAN, re \in { NoneList, Some(<<0, 2>>), Some(<<1>>) },
       rx \in RegexLists, rp \in RegexPositions, rm \in RegexMaxes :
        init_with([ page |-> << [cls |-> "wikitable", rows |-> t] >>,
                    link |-> no_links, kwargs |-> {no_kwargs},
                    entries |-> {"url"}, max_calls |-> 1 ],
                  WikiTableOptions([url |-> RootUrl, col_th |-> cth, row_ex |-> re,
                                    regex_ex |-> rx, regex_pos |-> rp, regex_max |-> rm]))

SpecRegex == InitRegex /\ [][Next]_vars

(***************************************************************************)
(* What the claims speak of.                                               *)
(***************************************************************************)
\* the table the call reads, as served (before any normalization touched it)
served == env.page[1].rows

\* the text of a cell as one normalization of the served element gives it
clean(cell) == get_clean_text_from_soup(cell).text

has_span(cell) == cell.rowspan # 0 \/ cell.colspan # 0
no_spans(rows) == \A i \in 1..Len(rows) : \A k \in 1..Len(rows[i]) : ~has_span(rows[i][k])

\* the call ran to its return
returned == pc = "idle" /\ calls > 0 /\ err = ""

(***************************************************************************)
(* The grid of a table as HTML lays it out: each cell takes the first      *)
(* column of its row not covered by a span from above or from the left,    *)
(* and covers rowspan x colspan coordinates from there.                    *)
(***************************************************************************)
extent(n) == IF n = 0 THEN 1 ELSE n

RECURSIVE layout_cells(_, _, _, _, _)
layout_cells(cells, r, k, c, g) ==
    IF k > Len(cells) THEN g
    ELSE LET free == SetMin({x \in c..(c + Cardinality(DOMAIN g)) : <<r, x>> \notin DOMAIN g})
             cell == cells[k]
             rect == { <<r + i, free + j>> :
                        i \in 0..(extent(cell.rowspan) - 1), j \in 0..(extent(cell.colspan) - 1) }
             g2 == [x \in DOMAIN g \cup rect |-> IF x \in DOMAIN g THEN g[x] ELSE clean(cell)]
         IN  layout_cells(cells, r, k + 1, free + extent(cell.colspan), g2)

RECURSIVE layout_rows(_, _, _)
layout_rows(rows, r, g) ==
    IF r >= Len(rows) THEN g
    ELSE layout_rows(rows, r + 1, layout_cells(rows[r + 1], r, 1, 0, g))

html_grid(rows) == layout_rows(rows, 0, empty_map)

(***************************************************************************)
(* C3: the body generator puts every cell's text at the grid column the    *)
(* cell occupies once earlier spans are accounted for, and every           *)
(* coordinate covered by a span carries the spanning cell's text.  Stated  *)
(* for the tables none of whose cells carries both attributes, where the   *)
(* cross-applied extents of the registration play no part.                 *)
(***************************************************************************)
no_both(rows) ==
    \A i \in 1..Len(rows) : \A k \in 1..Len(rows[i]) :
        rows[i][k].rowspan = 0 \/ rows[i][k].colspan = 0

C3_CorrectOffsets ==
    \A x \in DOMAIN html_grid(served) :
        (no_both(served) /\ x[1] < Len(raw)) =>
            /\ x[2] < Len(raw[x[1] + 1])
            /\ raw[x[1] + 1][x[2] + 1] = html_grid(served)[x]

(***************************************************************************)
(* C4: in the table of three rows whose first cell has colspan 2 and       *)
(* rowspan 2, followed by A in row 0, with B in row 1 and a plain row 2,   *)
(* the spanning cell's text is at (0,0), (0,1), (1,0) and (1,1) of the     *)
(* generated rows and of the assembled grid.                               *)
(***************************************************************************)
is_3x3_span_table ==
    /\ Len(served) = 3
    /\ Len(served[1]) = 2 /\ Len(served[2]) = 1 /\ Len(served[3]) \in 2..3
    /\ served[1][1].rowspan = 2 /\ served[1][1].colspan = 2
    /\ \A i \in 1..3 : \A k \in 1..Len(served[i]) : (i # 1 \/ k # 1) => ~has_span(served[i][k])

C4_SpanAtFourCoordinates ==
    is_3x3_span_table =>
        /\ \A i \in 1..2 :
              i <= Len(raw) =>
                  /\ Len(raw[i]) >= 2
                  /\ raw[i][1] = clean(served[1][1])
                  /\ raw[i][2] = clean(served[1][1])
        /\ pc \in {"extract", "exit"} =>
              \A i \in 1..2 : \A j \in 1..2 : grid[i][j] = clean(served[1][1])
        /\ returned =>
              \A i \in 1..2 : \A j \in 1..2 : result.vals[i][j] = clean(served[1][1])

C4_Witness == is_3x3_span_table /\ returned /\ Len(result.vals) = 3

(***************************************************************************)
(* C5: for a table without rowspan/colspan attributes, with header modes   *)
(* off and no filters, row i of the generated grid is the list of the      *)
(* normalized texts of the cells of table row i, in order.                 *)
(***************************************************************************)
plain_config ==
    /\ ~options.col_th /\ ~options.row_th
    /\ options.col_ex.none /\ options.row_ex.none
    /\ options.col_ref = Some(<<>>) /\ options.row_ref = Some(<<>>)

texts_of(cells) == [k \in 1..Len(cells) |-> clean(cells[k])]

C5_PlainRowMajor ==
    (pc # "idle" /\ pc # "fetch" /\ plain_config /\ no_spans(served)) =>
        /\ Len(data) <= Len(served)
        /\ \A i \in 1..Len(data) : data[i] = texts_of(served[i])
        /\ pc \in {"extract", "exit"} =>
              /\ Len(grid) = Len(served)
              /\ \A i \in 1..Len(grid) :
                    SubSeq(grid[i], 1, Len(served[i])) = texts_of(served[i])

C5_Witness ==
    /\ pc = "exit" /\ plain_config /\ no_spans(served)
    /\ Len(served) >= 2
    /\ Len(served[1]) # Len(served[2])

(***************************************************************************)
(* C1: a per-call override is scoped to the call: once the call has ended, *)
(* by return or by exception, the engine's persistent options equal their  *)
(* values from before the call.                                            *)
(***************************************************************************)
C1_OverrideScoped ==
    (pc = "idle" /\ calls > 0) => options = pre_options

(***************************************************************************)
(* C2: when the entry operation raises the link-scope conflict, no fetch   *)
(* (root or nested) has been made before it.                               *)
(***************************************************************************)
C2_ConflictBeforeFetch ==
    (pc = "idle" /\ err = "Exception") => events = <<>>

(***************************************************************************)
(* C6: the row index has as many labels as rows emitted after filtering,   *)
(* and the column index as many labels as the assembled grid has columns   *)
(* (labels beyond the header being sequential integers).  Stated for the   *)
(* calls without keep filters on a rectangular table of two rows or more   *)
(* without spans: when every row has been generated the row labels are as  *)
(* many as the rows and the column labels no more than the columns, and in *)
(* the assembled grid they are as many.                                    *)
(***************************************************************************)
all_generated == pc = "row" /\ g_row = body_rows

rectangular(rows) ==
    /\ Len(rows) >= 2
    /\ no_spans(rows)
    /\ \A i \in 1..Len(rows) : Len(rows[i]) = Len(rows[1])

C6_IndexLengths ==
    (options.col_ex.none /\ options.row_ex.none /\ rectangular(served)) =>
        /\ all_generated =>
              /\ Len(row_idx) = Len(data)
              /\ Len(col_idx) <= max_len(data)
        /\ pc \in {"extract", "exit"} =>
              /\ Len(row_idx) = Len(grid)
              /\ Len(col_idx) = max_len(grid)
              /\ \A j \in 1..Len(col_idx) :
                    j > sum_widths(served[1]) => col_idx[j] = IntLabel(j - 1)

(***************************************************************************)
(* C7: the column index built from the first row is as wide as the sum of  *)
(* the widths of its cells; a position holds the normalized text of its    *)
(* source cell when column-header mode is on and that cell is a th, and    *)
(* its own integer otherwise.  (Read right after _handle_col_th, no column *)
(* filter.)                                                                *)
(***************************************************************************)
\* the cell of the row that covers grid position p (from 0) by its width
RECURSIVE source_cell(_, _)
source_cell(cells, p) ==
    LET w == IF Head(cells).colspan # 0 THEN Head(cells).colspan ELSE 1
    IN  IF p < w THEN Head(cells) ELSE source_cell(Tail(cells), p - w)

C7_ColumnIndex ==
    (pc = "row_th" /\ options.col_ex.none) =>
        /\ Len(col_idx) = sum_widths(served[1])
        /\ \A p \in 0..(Len(col_idx) - 1) :
              col_idx[p + 1] =
                 IF options.col_th /\ source_cell(served[1], p).name = "th"
                 THEN StrLabel(clean(source_cell(served[1], p)))
                 ELSE IntLabel(p)

(***************************************************************************)
(* C8: the filter keeps exactly the generated rows whose ordinal is in     *)
(* row_ex and, in each kept row, exactly the values whose position is in   *)
(* col_ex, in their order; None keeps everything, an empty list nothing,   *)
(* and no generated row is emitted twice.                                  *)
(***************************************************************************)
\* the subsequence of s at the positions (from 0) in K
RECURSIVE pick(_, _, _)
pick(s, i, K) ==
    IF i > Len(s) THEN <<>>
    ELSE (IF (i - 1) \in K THEN << s[i] >> ELSE <<>>) \o pick(s, i + 1, K)

kept(keep_list, n) == IF keep_list.none THEN 0..(n - 1) ELSE Range(keep_list.v)

kept_rows == pick(raw, 1, kept(options.row_ex, Len(raw)))

C8_FilterKeeps ==
    (pc \in {"row", "cell", "extract", "exit"}) =>
        /\ Len(data) = Len(kept_rows)
        /\ Len(data) <= Len(raw)
        /\ \A i \in 1..Len(data) :
              data[i] = pick(kept_rows[i], 1, kept(options.col_ex, Len(kept_rows[i])))
        /\ (options.row_ex.none /\ options.col_ex.none) => data = raw
        /\ (options.row_ex = Some(<<>>)) => data = <<>>
        /\ (options.col_ex = Some(<<>>)) => \A i \in 1..Len(data) : data[i] = <<>>

C8_Witness ==
    /\ pc = "extract"
    /\ options.col_ex = Some(<<0, 2>>) /\ options.row_ex = Some(<<1, 0>>)
    /\ Len(raw) = 3 /\ Len(raw[1]) = 3
    /\ data = << <<raw[1][1], raw[1][3]>>, <<raw[2][1], raw[2][3]>> >>

(***************************************************************************)
(* The extraction the specification describes, by grid position: the       *)
(* matches of a pattern column by column, each column top to bottom, the   *)
(* first regex_max of them, each giving the cell at its position plus the  *)
(* offset.                                                                 *)
(***************************************************************************)
grid_width == IF grid = <<>> THEN 0 ELSE Len(grid[1])

\* the k-th (from 1) position of the grid in column-major order
nth_position(k) == << ((k - 1) % Len(grid)) + 1, ((k - 1) \div Len(grid)) + 1 >>

match_positions(rex) ==
    LET hits == {k \in 1..(Len(grid) * grid_width) :
                    LET rc == nth_position(k)
                    IN  grid[rc[1]][rc[2]] # Missing /\ InSeq(rex, grid[rc[1]][rc[2]])}
        nth_hit(j) == CHOOSE k \in hits : Cardinality({m \in hits : m < k}) = j - 1
    IN  [j \in 1..Cardinality(hits) |-> nth_position(nth_hit(j))]

retained(rex) ==
    LET all == match_positions(rex)
    IN  IF options.regex_max.none \/ options.regex_max.v >= Len(all) THEN all
        ELSE SubSeq(all, 1, options.regex_max.v)

offset_of(e) ==
    IF options.regex_pos.none \/ e > Len(options.regex_pos.v) THEN <<0, 0>>
    ELSE options.regex_pos.v[e]

in_grid(rc) == rc[1] \in 1..Len(grid) /\ rc[2] \in 1..grid_width

\* the positions the retained matches of entry e point at
targets(e) ==
    LET kept_matches == retained(options.regex_ex.v[e])
    IN  [k \in 1..Len(kept_matches) |->
            << kept_matches[k][1] + offset_of(e)[1], kept_matches[k][2] + offset_of(e)[2] >>]

RECURSIVE values_from(_)
values_from(e) ==
    IF e > Len(options.regex_ex.v) THEN <<>>
    ELSE [k \in 1..Len(targets(e)) |-> grid[targets(e)[k][1]][targets(e)[k][2]]]
            \o values_from(e + 1)

all_targets_in_grid ==
    \A e \in 1..Len(options.regex_ex.v) :
        \A k \in 1..Len(targets(e)) : in_grid(targets(e)[k])

extraction_ended ==
    /\ pc = "idle" /\ calls > 0 /\ ~options.regex_ex.none
    /\ err \in {"", "TypeError", "KeyError"}

(***************************************************************************)
(* C9: for each retained match at grid position (r, c) the extracted value *)
(* is the grid cell at position (r + rowOffset, c + colOffset), also in    *)
(* grids whose rows were filtered or labelled by header text; an entry     *)
(* without a configured offset uses (0, 0).  Stated for the calls that     *)
(* keep every match (regex_max is None) and whose targets lie in the grid. *)
(***************************************************************************)
C9_ExtractsOffsetCell ==
    (extraction_ended /\ all_targets_in_grid /\ options.regex_max.none) =>
        /\ err = ""
        /\ result.vals = values_from(1)

(***************************************************************************)
(* C10: matches are collected column by column, top to bottom, and cut to  *)
(* the first regex_max before any lookup; the output concatenates the      *)
(* entries in order, and a match beyond the first regex_max contributes    *)
(* neither a value nor an error.  Stated for the grids whose rows are not  *)
(* filtered: the call fails only when a retained match has a text label or *)
(* points outside the grid, and returns one value per retained match.      *)
(***************************************************************************)
retained_has_text_label ==
    \E e \in 1..Len(options.regex_ex.v) :
        \E k \in 1..Len(retained(options.regex_ex.v[e])) :
            \/ ~row_idx[retained(options.regex_ex.v[e])[k][1]].int
            \/ ~col_idx[retained(options.regex_ex.v[e])[k][2]].int

C10_TruncatedBeforeLookup ==
    (extraction_ended /\ options.row_ex.none) =>
        /\ (err # "") => (retained_has_text_label \/ ~all_targets_in_grid)
        /\ (err = "") => result.vals = values_from(1)

(***************************************************************************)
(* C11: when the offset position of a retained match lies outside the      *)
(* grid (negative positions included) the extraction fails with a lookup   *)
(* error; it returns no value for that match.  Any error of the call is    *)
(* accepted here as the failure.                                           *)
(***************************************************************************)
C11_OutOfGridFails ==
    (extraction_ended /\ ~all_targets_in_grid) => err # ""

(***************************************************************************)
(* Tables whose first cell holds up to MaxNoise sup/small/br descendants,  *)
(* in any order and with repeats, and may carry span attributes.           *)
(***************************************************************************)
NoiseLists == UNION { [1..n -> {"sup", "small", "br"}] : n \in 0..MaxNoise }

noise_table(n, w, noise, rowspan, colspan) ==
    [i \in 1..n |->
        [j \in 1..w |->
            IF i = 1 /\ j = 1
            THEN [mk_cell("td", rowspan, colspan, 1, 1) EXCEPT !.noise = noise]
            ELSE [mk_cell("td", 0, 0, i, j) EXCEPT !.noise = << >>]]]

NoiseTables ==
    { noise_table(n, w, noise, rs, cs) :
        n \in 1..2, w \in 1..2, noise \in NoiseLists, rs \in 0..MaxSpan, cs \in 0..MaxSpan }

InitNoise ==
    \E t \in NoiseTables :
        init_with([ page |-> << [cls |-> "wikitable", rows |-> t] >>,
                    link |-> no_links, kwargs |-> {no_kwargs},
                    entries |-> {"url", "soup"}, max_calls |-> 1 ],
                  WikiTableOptions([url |-> RootUrl]))

SpecNoise == InitNoise /\ [][Next]_vars

(***************************************************************************)
(* Tables whose first row holds several spanning cells, so that the span   *)
(* map of a row can hold separate runs of columns.                         *)
(***************************************************************************)
SpanChoices == { <<0, 0>>, <<0, 2>> } \cup { <<rs, 0>> : rs \in 2..MaxSpan }

multi_span_table(first, widths) ==
    [i \in 1..(1 + Len(widths)) |->
        IF i = 1 THEN [j \in 1..Len(first) |-> mk_cell("td", first[j][1], first[j][2], 1, j)]
        ELSE [j \in 1..widths[i - 1] |-> mk_cell("td", 0, 0, i, j)]]

MultiSpanTables ==
    { multi_span_table(first, widths) :
        first \in UNION { [1..w -> SpanChoices] : w \in 1..MaxCols },
        widths \in UNION { [1..n -> 1..2] : n \in 1..2 } }

InitTake ==
    \E t \in MultiSpanTables :
        init_with([ page |-> << [cls |-> "wikitable", rows |-> t] >>,
                    link |-> no_links, kwargs |-> {no_kwargs},
                    entries |-> {"url"}, max_calls |-> 1 ],
                  WikiTableOptions([url |-> RootUrl]))

SpecTake == InitTake /\ [][Next]_vars

(***************************************************************************)
(* The tables with several spans under every header mode, with the         *)
(* scheduling of the program: the one thread of the call keeps running     *)
(* until the call ends.                                                    *)
(***************************************************************************)
InitGen ==
    \E t \in MultiSpanTables, cth \in BOOLEAN, rth \in BOOLEAN :
        init_with([ page |-> << [cls |-> "wikitable", rows |-> t] >>,
                    link |-> no_links, kwargs |-> {no_kwargs},
                    entries |-> {"url"}, max_calls |-> 1 ],
                  WikiTableOptions([url |-> RootUrl, col_th |-> cth, row_th |-> rth]))

\* the loop over the cells of a row moves on to the next cell: a Cell step, told
\* by its counter alone (enabled exactly when Cell is)
cell_advances == pc = "cell" /\ g_col < Len(body_cells) /\ g_col' = g_col + 1

Fairness ==
    /\ WF_vars(Call \/ Fetch \/ HandleColTh \/ HandleRowTh \/ StartRow \/ YieldRow
                \/ Assemble \/ Extract \/ Return)
    /\ WF_g_col(cell_advances)

SpecGen == InitGen /\ [][Next]_vars /\ Fairness

(***************************************************************************)
(* Tables whose first row is two cells, each with any span attributes, so  *)
(* that a registration can meet keys written by the one before it.         *)
(***************************************************************************)
SpanPairs == (0..MaxSpan) \X (0..MaxSpan)

two_span_table(first, second, widths) ==
    [i \in 1..(1 + Len(widths)) |->
        IF i = 1 THEN << mk_cell("td", first[1], first[2], 1, 1),
                         mk_cell("td", second[1], second[2], 1, 2) >>
        ELSE [j \in 1..widths[i - 1] |-> mk_cell("td", 0, 0, i, j)]]

TwoSpanTables ==
    { two_span_table(first, second, widths) :
        first \in SpanPairs, second \in SpanPairs,
        widths \in UNION { [1..n -> 1..2] : n \in 1..2 } }

InitSpans ==
    \E t \in TwoSpanTables :
        init_with([ page |-> << [cls |-> "wikitable", rows |-> t] >>,
                    link |-> no_links, kwargs |-> {no_kwargs},
                    entries |-> {"url"}, max_calls |-> 1 ],
                  WikiTableOptions([url |-> RootUrl]))

SpecSpans == InitSpans /\ [][Next]_vars

(***************************************************************************)
(* Tables with spans whose cells hold hyperlinks, for the link scope: the  *)
(* first cell of the second row holds none, the others a relative or an    *)
(* absolute one by their position.                                         *)
(***************************************************************************)
link_of(cell, r, k) ==
    IF r = 2 /\ k = 1 THEN cell
    ELSE IF (r + k) % 2 = 0 THEN [cell EXCEPT !.a = "rel", !.href = "/ok"]
    ELSE [cell EXCEPT !.a = "abs", !.href = OtherUrl]

with_links(rows) == [r \in 1..Len(rows) |-> [k \in 1..Len(rows[r]) |-> link_of(rows[r][k], r, k)]]

LinkSpanTables == { with_links(t) : t \in { x \in SpanTables : Len(x) <= MaxSpan } }

ColumnScopes == { NoneList, Some(<<>>) } \cup { Some(<<c>>) : c \in 0..MaxIdx }

InitLinks ==
    \E t \in LinkSpanTables, cr \in ColumnScopes :
        init_with([ page |-> << [cls |-> "wikitable", rows |-> t] >>,
                    link |-> linked_pages, kwargs |-> {no_kwargs},
                    entries |-> {"url"}, max_calls |-> 1 ],
                  WikiTableOptions([url |-> RootUrl, col_ref |-> cr, on_link |-> TRUE]))

SpecLinks == InitLinks /\ [][Next]_vars

(***************************************************************************)
(* Tables of two spanning cells whose cells hold hyperlinks, under a row   *)
(* scope (every cell of the row is followed) or a column scope.            *)
(***************************************************************************)
RowLinkScopes ==
    { << Some(<<1>>), Some(<<>>) >> } \cup { << Some(<<>>), Some(<<r>>) >> : r \in 0..1 }

InitRowLinks ==
    \E t \in TwoSpanTables, sc \in RowLinkScopes :
        init_with([ page |-> << [cls |-> "wikitable", rows |-> with_links(t)] >>,
                    link |-> linked_pages, kwargs |-> {no_kwargs},
                    entries |-> {"url"}, max_calls |-> 1 ],
                  WikiTableOptions([url |-> RootUrl, col_ref |-> sc[1], row_ref |-> sc[2],
                                    on_link |-> TRUE]))

SpecRowLinks == InitRowLinks /\ [][Next]_vars

(***************************************************************************)
(* Link following as the specification describes it: the body cells that   *)
(* hold a hyperlink with a target, and the cells handed to the nested      *)
(* engine.                                                                 *)
(***************************************************************************)
in_body == pc \in {"row", "cell", "extract", "exit"}

body_row(r) ==
    LET tds == soup[start_row + r + 1]
    IN  IF start_col >= Len(tds) THEN <<>> ELSE SubSeq(tds, start_col + 1, Len(tds))

has_link(cell) == cell.a \in {"rel", "abs"}

\* the cells (row, ordinal) of the rows generated so far that hold a hyperlink
linked_cells == { << r, k >> \in (0..(g_row - 1)) \X (0..(MaxCols - 1)) :
                    k < Len(body_row(r)) /\ has_link(body_row(r)[k + 1]) }

followed_cells == { << followed[i][1], followed[i][2] >> : i \in 1..Len(followed) }

all_or_empty(scope) == scope.none \/ scope.v = <<>>

(***************************************************************************)
(* C12: the link scope tells None from the empty list: with col_ref None   *)
(* (or row_ref None) and the other scope not naming indices, every cell is *)
(* eligible, so every cell holding a hyperlink is followed; with both      *)
(* scopes the empty list no cell is.                                       *)
(***************************************************************************)
C12_NoneScopeIsEverything ==
    in_body =>
        /\ ((options.col_ref.none \/ options.row_ref.none)
                /\ all_or_empty(options.col_ref) /\ all_or_empty(options.row_ref))
              => linked_cells \subseteq followed_cells
        /\ (options.col_ref = Some(<<>>) /\ options.row_ref = Some(<<>>))
              => followed = <<>>

(***************************************************************************)
(* C13: with neither link scope configured the nested extraction is never  *)
(* invoked; with a column scope S and no row scope it is invoked for       *)
(* exactly the body cells that hold a hyperlink and whose grid column, the *)
(* column at which the cell's text sits in its output row, is in S, in     *)
(* tables with spans too.  Stated for the cells whose own text is in the   *)
(* generated row, in tables none of whose cells carries both attributes.   *)
(***************************************************************************)
\* the column (from 0) of the generated row r at which cell k put its own text
own_column(r, k) == raw_placed[r + 1][k + 1] - 1

C13_FollowsScopedColumns ==
    in_body =>
        /\ (all_or_empty(options.col_ref) /\ all_or_empty(options.row_ref))
              => followed = <<>>
        /\ ((~all_or_empty(options.col_ref)) /\ all_or_empty(options.row_ref)
                /\ no_both(served))
              => \A r \in 0..(g_row - 1) : \A k \in 0..(Len(body_row(r)) - 1) :
                    own_column(r, k) >= 0 =>
                        (<< r, k >> \in followed_cells
                            <=> (has_link(body_row(r)[k + 1])
                                 /\ InSeq(own_column(r, k), options.col_ref.v)))

(***************************************************************************)
(* C14: a cell in the link scope that holds no hyperlink, or an anchor     *)
(* without href, contributes no extra values and raises no error: its row  *)
(* is emitted with the texts of its own cells.  Read on the tables whose   *)
(* last cell is such a cell.                                               *)
(***************************************************************************)
no_target(cell) == cell.a \in {"none", "nohref"}

C14_NoTargetNoError ==
    (Len(served) = 2 /\ no_target(served[2][2])) =>
        /\ err # "AttributeError"
        /\ (in_body /\ ~options.col_th /\ Len(raw) >= 2) => raw[2] = texts_of(served[2])

(***************************************************************************)
(* C15: the result of a call does not depend on any earlier call made on   *)
(* the engine: with the markup fixed, every call runs under the options    *)
(* the engine was constructed with, merged with the call's own overrides,  *)
(* so that the same call made twice gives the same grid.                   *)
(***************************************************************************)
C15_IndependentOfEarlierCalls ==
    (pc # "idle") => \E kwargs \in env.kwargs : options = update(env.constructed, kwargs)

(***************************************************************************)
(* C16: the normalizer removes every sup, small and br descendant before   *)
(* reading the text, however many of a kind the cell holds: no text of     *)
(* such an element is in a text the body generator emits.                  *)
(***************************************************************************)
noise_marks == {"^", "~"}

C16_NoNoiseText ==
    \A i \in 1..Len(raw) : \A j \in 1..Len(raw[i]) :
        \A m \in noise_marks : ~InSeq(m, raw[i][j])

(***************************************************************************)
(* C17: registering a cell at (row, col) writes its text at (row + i,      *)
(* col + j) for i below colspan and j below rowspan when it has both       *)
(* attributes, at (row + i, col) for i below rowspan when it has rowspan   *)
(* alone, at (row, col + j) for j below colspan when it has colspan alone, *)
(* and nowhere when it has neither; no other coordinate of the map is      *)
(* written, by this step or by any other step of the call.                 *)
(***************************************************************************)
span_extent(row, col, cell) ==
    IF cell.rowspan # 0 /\ cell.colspan # 0
    THEN { << row + i, col + j >> : i \in 0..(cell.colspan - 1), j \in 0..(cell.rowspan - 1) }
    ELSE IF cell.rowspan # 0 THEN { << row + i, col >> : i \in 0..(cell.rowspan - 1) }
    ELSE IF cell.colspan # 0 THEN { << row, col + j >> : j \in 0..(cell.colspan - 1) }
    ELSE {}

registers == pc = "cell" /\ g_col' = g_col + 1

C17_RegistrationWrites ==
    [][ /\ registers =>
            LET cell == body_cells[g_col + 1]
                written == span_extent(g_row, g_col + col_off, cell)
            IN  /\ DOMAIN row_col_spans' = DOMAIN row_col_spans \cup written
                /\ \A x \in written : row_col_spans'[x] = clean(cell)
                /\ \A x \in DOMAIN row_col_spans \ written :
                        row_col_spans'[x] = row_col_spans[x]
        /\ (~registers /\ pc # "idle") => row_col_spans' = row_col_spans ]_vars

\* a first cell with rowspan 1 and colspan 2 has been registered, down its column
C17_Witness ==
    /\ pc = "cell" /\ g_row = 0 /\ g_col = 1
    /\ served[1][1].rowspan = 1 /\ served[1][1].colspan = 2
    /\ DOMAIN row_col_spans = { <<0, 0>>, <<1, 0>> }
    /\ row_col_spans[<<1, 0>>] = clean(served[1][1])

(***************************************************************************)
(* C18: the span query for (row, fromCol) returns, in column order, the    *)
(* texts of the run of consecutive map columns of that row that starts at  *)
(* fromCol or fromCol + 1 and ends at the first gap; it returns the empty  *)
(* list when the smallest map column of the row at or after fromCol is     *)
(* neither; and it leaves the map as it was, so that asking again gives    *)
(* the same answer.                                                        *)
(***************************************************************************)
RECURSIVE run_from(_, _, _)
run_from(row, c, spans) ==
    IF << row, c >> \in DOMAIN spans
    THEN << spans[<< row, c >>] >> \o run_from(row, c + 1, spans)
    ELSE << >>

take(row, fromCol, spans) ==
    IF << row, fromCol >> \in DOMAIN spans THEN run_from(row, fromCol, spans)
    ELSE run_from(row, fromCol + 1, spans)

queries == (0..MaxRows) \X (0..(MaxCols + MaxSpan))

C18_SpanQuery ==
    [][ /\ \A q \in queries :
              load_row_col_span(q[1], q[2], row_col_spans) = take(q[1], q[2], row_col_spans)
        /\ (pc = "row" /\ pc' = "cell") =>
              /\ to_yield' = take(g_row, 0, row_col_spans)
              /\ row_col_spans' = row_col_spans
              /\ load_row_col_span(g_row, 0, row_col_spans') = to_yield' ]_vars

\* the second row starts with a map that holds columns 0 and 2 but not 1
C18_Witness ==
    /\ pc = "cell" /\ g_row = 1 /\ g_col = 0
    /\ << 1, 0 >> \in DOMAIN row_col_spans
    /\ << 1, 1 >> \notin DOMAIN row_col_spans
    /\ << 1, 2 >> \in DOMAIN row_col_spans
    /\ to_yield = << row_col_spans[<< 1, 0 >>] >>

(***************************************************************************)
(* C19: during body generation a coordinate is a key of the span map if    *)
(* and only if the span of an earlier cell covers it and it has not        *)
(* received a cell of its own.  Read when a cell without span attributes   *)
(* is processed: the coordinate it is given is not a key of the map.       *)
(***************************************************************************)
C19_KeysAwaitTheirCell ==
    [][ registers =>
            LET cell == body_cells[g_col + 1]
            IN  (~has_span(cell)) =>
                    << g_row, g_col + col_off >> \notin DOMAIN row_col_spans' ]_vars

(***************************************************************************)
(* C20: the body generator yields exactly one row per table row after the  *)
(* header row that column-header mode skips, in document order, and then   *)
(* ends; without link following the call ends for every table.            *)
(***************************************************************************)
header_rows == IF options.col_th THEN 1 ELSE 0

\* the cells of the table row behind the i-th yielded row (from 1)
row_behind(i) ==
    LET tds == served[header_rows + i]
    IN  IF options.row_th THEN Tail(tds) ELSE tds

one_row_each ==
    in_body =>
        /\ Len(raw) <= Len(served) - header_rows
        /\ pc \in {"row", "cell"} => Len(raw) = g_row
        /\ pc \in {"extract", "exit"} => Len(raw) = Len(served) - header_rows
        /\ \A i \in 1..Len(raw) :
              /\ Len(raw_placed[i]) = Len(row_behind(i))
              /\ \A k \in 1..Len(raw_placed[i]) :
                    raw_placed[i][k] > 0 => raw[i][raw_placed[i][k]] = clean(row_behind(i)[k])

call_ended == pc = "idle" /\ calls > 0

C20_OneRowPerTableRow == [] one_row_each /\ <> call_ended

C20_Witness ==
    /\ pc = "exit" /\ options.col_th
    /\ Len(served) = 3 /\ Len(raw) = 2
    /\ has_span(served[1][1])

(***************************************************************************)
(* C21: in every emitted row the values that link following returned for  *)
(* the row's cells come after all the row's own values (own cells and span *)
(* projections), in the order of the cells that produced them.             *)
(***************************************************************************)
\* the value the linked page of a cell gives
link_value(cell) ==
    << "v", IF cell.a = "rel" THEN "https://h" \o cell.href ELSE cell.href >>

is_link_value(v) == v # << >> /\ v[1] = "v"

\* the cells of generated row r handed to the nested engine, in the order of the calls
followed_in(r) == SelectSeq(followed, LAMBDA f : f[1] = r)

expected_links(r) ==
    [i \in 1..Len(followed_in(r)) |-> link_value(served[r + 1][followed_in(r)[i][2] + 1])]

C21_LinkedValuesLast ==
    \A i \in 1..Len(raw) :
        LET n == Len(expected_links(i - 1))
        IN  /\ Len(raw[i]) >= n
            /\ SubSeq(raw[i], Len(raw[i]) - n + 1, Len(raw[i])) = expected_links(i - 1)
            /\ \A j \in 1..(Len(raw[i]) - n) : ~is_link_value(raw[i][j])
            /\ \A a, b \in 1..n :
                  a < b => followed_in(i - 1)[a][2] < followed_in(i - 1)[b][2]

\* a row of own values followed by the values of two different linked pages
C21_Witness ==
    /\ pc = "exit" /\ Len(raw) >= 1
    /\ Len(followed_in(0)) = 2
    /\ Len(raw[1]) >= 3
    /\ ~is_link_value(raw[1][1])
    /\ raw[1][Len(raw[1]) - 1] = << "v", "https://h/ok" >>
    /\ raw[1][Len(raw[1])] = << "v", OtherUrl >>

(***************************************************************************)
(* C22: no physical cell is lost: every body cell without a rowspan or     *)
(* colspan attribute contributes its own normalized text once to its       *)
(* emitted row, so an emitted row has at least as many values as the row   *)
(* has physical cells.                                                     *)
(***************************************************************************)
C22_NoCellLost ==
    \A i \in 1..Len(raw) :
        /\ Len(raw[i]) >= Len(served[i])
        /\ \A k \in 1..Len(served[i]) :
              ~has_span(served[i][k]) =>
                  /\ raw_placed[i][k] > 0
                  /\ raw[i][raw_placed[i][k]] = clean(served[i][k])

(***************************************************************************)
(* C23: labels stay aligned with the data under the keep filters: for any  *)
(* col_ex list, in any order and with or without repeats, the label at     *)
(* position k of the filtered column index is the label of the original    *)
(* column whose values sit at position k of the filtered rows; for row_ex  *)
(* the label at position k of the row index is the label of the k-th       *)
(* emitted row.                                                            *)
(***************************************************************************)
\* every row of the table has been generated and filtered
all_filtered == pc = "row" /\ g_row = body_rows

\* the value at position k of filtered row i is the value of column c of generated row r
sits_at(i, k, r, c) ==
    /\ r >= 0 /\ r < Len(raw)
    /\ c >= 0 /\ c < Len(raw[r + 1])
    /\ k <= Len(data[i])
    /\ data[i][k] = raw[r + 1][c + 1]

C23_LabelsAligned ==
    (all_filtered /\ rectangular(served)) =>
        /\ Len(row_idx) = Len(data)
        /\ \A i \in 1..Len(data) :
              /\ i <= Len(row_idx)
              /\ Len(data[i]) = Len(col_idx)
              /\ \A k \in 1..Len(col_idx) :
                    sits_at(i, k, row_idx[i].n, col_idx[k].n)

(***************************************************************************)
(* C24: text normalization is repeatable: normalizing the same cell        *)
(* element again returns the same string, so all coordinates projected by  *)
(* one spanning cell (each written by its own normalization call during    *)
(* registration) hold identical text.                                      *)
(***************************************************************************)
\* the text of a second normalization of the element a first one has worked on
clean_again(cell) == get_clean_text_from_soup(get_clean_text_from_soup(cell).soup).text

\* the coordinates the registration of the spanning cell at (0, 0) has written
projected == { x \in DOMAIN row_col_spans : has_span(served[1][1]) }

C24_NormalizationRepeatable ==
    /\ projected # {} => clean_again(served[1][1]) = clean(served[1][1])
    /\ \A x, y \in projected : row_col_spans[x] = row_col_spans[y]

====
